---- MODULE Spec2Model ----
\* MySnippetHub: the record store (SQLite schema with its triggers and
\* cascades), the snippet / tag / favorite routes and the export / import
\* service, as a state machine over the tables of the database.
EXTENDS Integers, Sequences, FiniteSets, Bags, TLC

\* ---------------------------------------------------------------- bounds
MaxSnippetId == 2       \* ids the snippets AUTOINCREMENT sequence may hand out
MaxVersionRows == 2     \* rows the versions table may hold
MaxTagId == 1           \* ids the tags AUTOINCREMENT sequence may hand out
MaxRecords == 1         \* snippets in an import document
MaxValidated == 2       \* snippets in a document handed to validation alone
MaxDocument == 2        \* snippets in a document whose import is examined at every store
MaxCalls == 2           \* requests in flight at a time

\* ---------------------------------------------------------------- values
NULL == "NULL"                      \* SQL NULL, JS null
Absent == [present |-> FALSE]       \* a field the request does not carry
Some(v) == [present |-> TRUE, val |-> v]

undefined == 0                      \* JS undefined where an id is expected (binds as NULL)
DefaultTagColor == "#6B7280"
DefaultImportLanguage == "plaintext"

\* JSON values of the kinds the import code tests for: a value that is not a
\* string, a value that is not an array, a null record, a document that is
\* not an object
NotText == "<not text>"
NotArray == [present |-> TRUE, array |-> FALSE]
NullRecord == [null |-> TRUE]
NotAnObject == [object |-> FALSE]
\* what a call that threw hands back
Thrown == [threw |-> TRUE]
\* x && Array.isArray(x)
IsArray(x) == x.present /\ "val" \in DOMAIN x

\* request bodies of POST and PUT /api/snippets (titles as typed, before the
\* validation chain trims them): title-only, content-only and metadata-only
\* differences all occur among them
Contents == {<<"x=1">>, <<"x=1", "y=2">>}
SnippetBodies ==
  { [title |-> "A",  content |-> <<"x=1">>, language |-> "python", source |-> Absent],
    [title |-> "A",  content |-> <<"x=1">>, language |-> "js", source |-> Some("docs")],
    [title |-> "A",  content |-> <<"x=1", "y=2">>, language |-> "python", source |-> Some("")],
    [title |-> " B", content |-> <<"x=1">>, language |-> "python", source |-> Absent],
    [title |-> "",   content |-> <<"x=1">>, language |-> "js", source |-> Absent] }
TagNames == {"web", "c,cpp"}
TagLists == {Absent, Some(<<"web">>)}

VARIABLES
  snippets,       \* table snippets: id -> row
  snippetSeq,     \* AUTOINCREMENT sequence of snippets
  versions,       \* table versions, in rowid order
  tags,           \* table tags: id -> row
  tagSeq,         \* AUTOINCREMENT sequence of tags
  snippet_tags,   \* table snippet_tags: set of <<snippet_id, tag_id>>
  favorites,      \* table favorites: bag of snippet ids, one copy per row
  edits,          \* history: per snippet, the requests so far that changed its title or content
  last,           \* history: the last request of a writing route that was answered 2xx
  validated,      \* history: the last document sent to validate-import, and the answer
  calls,          \* the requests in flight whose handlers are between two awaits
  txn             \* the transaction of the one database connection

store == <<snippets, snippetSeq, versions, tags, tagSeq, snippet_tags, favorites>>
vars == <<snippets, snippetSeq, versions, tags, tagSeq, snippet_tags, favorites, edits, last,
          validated, calls, txn>>

\* The tables as one value, for the operators that model SQL statements.
DB == [snippets |-> snippets, snippetSeq |-> snippetSeq, versions |-> versions,
       tags |-> tags, tagSeq |-> tagSeq, snippet_tags |-> snippet_tags,
       favorites |-> favorites]

Commit(D) ==
  /\ snippets' = D.snippets
  /\ snippetSeq' = D.snippetSeq
  /\ versions' = D.versions
  /\ tags' = D.tags
  /\ tagSeq' = D.tagSeq
  /\ snippet_tags' = D.snippet_tags
  /\ favorites' = D.favorites

\* ---------------------------------------------------------------- helpers
Range(s) == {s[i] : i \in 1..Len(s)}

\* String.prototype.trim / the validator's trim sanitizer, on the inputs used
trim(s) == IF s = " B" THEN "B" ELSE s

\* `x || null` for an optional text field
OrNull(x) == IF x.present /\ x.val # "" THEN x.val ELSE NULL

\* PRAGMA foreign_keys = ON, issued on connect
\* variant: the connection never runs PRAGMA foreign_keys = ON
foreign_keys_off == FALSE

foreign_keys == TRUE

\* ---------------------------------------------------------------- schema
\* WHEN clause of trigger save_snippet_version
\* variant: the WHEN clause compares the content alone
save_snippet_version_when_content(old, new) == old.content # new.content

\* variant: no WHEN clause, the trigger runs on every update
save_snippet_version_when_always(old, new) == TRUE

save_snippet_version_when(old, new) ==
  old.content # new.content \/ old.title # new.title

\* variant: the trigger body reads NEW where it should read OLD
save_snippet_version_new(D, id, old, new) ==
  IF save_snippet_version_when(old, new)
  THEN [D EXCEPT
          !.versions = Append(@, [snippet_id |-> id, title |-> new.title,
                                  content |-> new.content, language |-> new.language,
                                  source |-> new.source, version_number |-> new.version]),
          !.snippets[id].version = @ + 1]
  ELSE D

\* variant: the trigger body without its UPDATE snippets SET version = version + 1
save_snippet_version_unnumbered(D, id, old, new) ==
  IF save_snippet_version_when(old, new)
  THEN [D EXCEPT
          !.versions = Append(@, [snippet_id |-> id, title |-> old.title,
                                  content |-> old.content, language |-> old.language,
                                  source |-> old.source, version_number |-> old.version])]
  ELSE D

\* variant: the trigger keeps one snapshot per snippet, replacing the one it has
save_snippet_version_replace(D, id, old, new) ==
  IF save_snippet_version_when(old, new)
  THEN [D EXCEPT
          !.versions = Append(SelectSeq(@, LAMBDA v : v.snippet_id # id),
                              [snippet_id |-> id, title |-> old.title,
                               content |-> old.content, language |-> old.language,
                               source |-> old.source, version_number |-> old.version]),
          !.snippets[id].version = @ + 1]
  ELSE D

\* body of trigger save_snippet_version
save_snippet_version(D, id, old, new) ==
  IF save_snippet_version_when(old, new)
  THEN [D EXCEPT
          !.versions = Append(@, [snippet_id |-> id, title |-> old.title,
                                  content |-> old.content, language |-> old.language,
                                  source |-> old.source, version_number |-> old.version]),
          !.snippets[id].version = @ + 1]
  ELSE D

\* UPDATE snippets SET title, content, language, source WHERE id = ?
UpdateSnippetRow(D, id, title, content, language, source) ==
  IF id \notin DOMAIN D.snippets THEN D
  ELSE LET old == D.snippets[id]
           new == [old EXCEPT !.title = title, !.content = content,
                              !.language = language, !.source = source]
       IN save_snippet_version([D EXCEPT !.snippets[id] = new], id, old, new)

\* INSERT INTO snippets (title, content, language, source): version DEFAULT 1
InsertSnippetRow(D, title, content, language, source) ==
  LET id == D.snippetSeq + 1
      row == [title |-> title, content |-> content, language |-> language,
              source |-> source, version |-> 1]
  IN [D EXCEPT !.snippets = [i \in DOMAIN @ \cup {id} |-> IF i = id THEN row ELSE @[i]],
               !.snippetSeq = id]

\* UNIQUE(snippet_id) of table favorites
\* variant: the table is declared without it
unique_snippet_id_off == FALSE

unique_snippet_id == TRUE

\* DELETE FROM favorites WHERE snippet_id = ?
DeleteFavoriteRows(D, snippetId) ==
  [D EXCEPT !.favorites = [s \in DOMAIN @ \ {snippetId} |-> @[s]]]

\* INSERT INTO favorites (snippet_id) VALUES (?): the table afterwards and
\* whether the statement failed on a constraint
InsertFavoriteRow(D, snippetId) ==
  IF \/ unique_snippet_id /\ BagIn(snippetId, D.favorites)
     \/ foreign_keys /\ snippetId \notin DOMAIN D.snippets
  THEN [db |-> D, failed |-> TRUE]
  ELSE [db |-> [D EXCEPT !.favorites = @ (+) SetToBag({snippetId})], failed |-> FALSE]

\* variant: the cascade misses table favorites
DeleteSnippetRow_favorites(D, id) ==
  LET D1 == [D EXCEPT !.snippets = [i \in DOMAIN @ \ {id} |-> @[i]]]
  IN [D1 EXCEPT !.versions = SelectSeq(@, LAMBDA v : v.snippet_id # id),
                !.snippet_tags = {st \in @ : st[1] # id}]

\* DELETE FROM snippets WHERE id = ?, with the ON DELETE CASCADE clauses
DeleteSnippetRow(D, id) ==
  LET D1 == [D EXCEPT !.snippets = [i \in DOMAIN @ \ {id} |-> @[i]]]
  IN IF foreign_keys
     THEN [D1 EXCEPT !.versions = SelectSeq(@, LAMBDA v : v.snippet_id # id),
                     !.snippet_tags = {st \in @ : st[1] # id},
                     !.favorites = DeleteFavoriteRows(D, id).favorites]
     ELSE D1

\* SELECT * FROM versions WHERE snippet_id = ? AND version_number = ? (first row)
VersionRows(vs, id, n) == SelectSeq(vs, LAMBDA v : v.snippet_id = id /\ v.version_number = n)

\* SELECT ... FROM tags WHERE name = ? (name is UNIQUE)
TagIdsByName(D, name) == {t \in DOMAIN D.tags : D.tags[t].name = name}
TagIdByName(D, name) == CHOOSE t \in TagIdsByName(D, name) : TRUE

\* INSERT INTO tags (name, color)
InsertTagRow(D, name, color) ==
  LET id == D.tagSeq + 1
  IN [D EXCEPT !.tags = [t \in DOMAIN @ \cup {id} |->
                           IF t = id THEN [name |-> name, color |-> color] ELSE @[t]],
               !.tagSeq = id]

\* INSERT OR IGNORE INTO snippet_tags (snippet_id, tag_id): a row that breaks
\* NOT NULL or UNIQUE(snippet_id, tag_id) is skipped
InsertOrIgnoreSnippetTag(D, snippetId, tagId) ==
  IF snippetId = undefined THEN D
  ELSE [D EXCEPT !.snippet_tags = @ \cup {<<snippetId, tagId>>}]

\* DELETE FROM snippet_tags WHERE snippet_id = ?
DeleteSnippetTags(D, snippetId) ==
  [D EXCEPT !.snippet_tags = {st \in @ : st[1] # snippetId}]

\* ---------------------------------------------------------------- routes/snippets.js
\* the for loop of manageTags
RECURSIVE manageTagsLoop(_, _, _)
manageTagsLoop(D, snippetId, tagNames) ==
  IF tagNames = <<>> THEN D
  ELSE LET tagName == Head(tagNames)
           D1 == IF TagIdsByName(D, tagName) = {}
                 THEN InsertTagRow(D, tagName, DefaultTagColor) ELSE D
           D2 == InsertOrIgnoreSnippetTag(D1, snippetId, TagIdByName(D1, tagName))
       IN manageTagsLoop(D2, snippetId, Tail(tagNames))

manageTags(D, snippetId, tagNames) ==
  IF ~tagNames.present THEN D
  ELSE manageTagsLoop(DeleteSnippetTags(D, snippetId), snippetId, tagNames.val)

\* the validateSnippet chain: notEmpty on title, then trim
validationErrors(title) == title = ""

\* the model's bounds, as a guard on the tables an operation leaves behind
WithinBounds(D) ==
  /\ D.snippetSeq <= MaxSnippetId
  /\ Len(D.versions) <= MaxVersionRows
  /\ D.tagSeq <= MaxTagId

\* what a handler leaves behind: the tables, the HTTP status, the JSON body
Reply(D, status, body) == [db |-> D, status |-> status, body |-> body]

\* POST /api/snippets
postSnippet(D, title, content, language, source, tagNames) ==
  IF validationErrors(title) THEN Reply(D, 400, "errors")
  ELSE LET D1 == InsertSnippetRow(D, trim(title), content, language, OrNull(source))
       IN Reply(manageTags(D1, D1.snippetSeq, tagNames), 201, D1.snippetSeq)

\* PUT /api/snippets/:id
putSnippet(D, snippetId, title, content, language, source, tagNames) ==
  IF validationErrors(title) THEN Reply(D, 400, "errors")
  ELSE IF snippetId \notin DOMAIN D.snippets THEN Reply(D, 404, "Snippet not found")
  ELSE LET D1 == UpdateSnippetRow(D, snippetId, trim(title), content, language, OrNull(source))
           D2 == manageTags(D1, snippetId, tagNames)
       IN Reply(D2, 200, D2.snippets[snippetId])

\* DELETE /api/snippets/:id
deleteSnippet(D, snippetId) ==
  IF snippetId \notin DOMAIN D.snippets THEN Reply(D, 404, "Snippet not found")
  ELSE Reply(DeleteSnippetRow(D, snippetId), 200, "Snippet deleted successfully")

\* ORDER BY version_number DESC
RECURSIVE OrderByVersionNumberDesc(_)
OrderByVersionNumberDesc(rows) ==
  IF rows = <<>> THEN <<>>
  ELSE LET i == CHOOSE i \in 1..Len(rows) :
                  \A j \in 1..Len(rows) :
                     \/ rows[j].version_number < rows[i].version_number
                     \/ (rows[j].version_number = rows[i].version_number /\ i <= j)
       IN <<rows[i]>> \o OrderByVersionNumberDesc(SubSeq(rows, 1, i - 1) \o SubSeq(rows, i + 1, Len(rows)))

\* SELECT * FROM versions WHERE snippet_id = ? ORDER BY version_number DESC
listVersions(vs, snippetId) ==
  OrderByVersionNumberDesc(SelectSeq(vs, LAMBDA v : v.snippet_id = snippetId))

\* GET /api/snippets/:id/versions
getVersions(D, snippetId) == Reply(D, 200, listVersions(D.versions, snippetId))

\* variant: the rollback restores the content and leaves title, language and source
postRollback_content(D, snippetId, version_number) ==
  LET found == VersionRows(D.versions, snippetId, version_number)
  IN IF found = <<>> THEN Reply(D, 404, "Version not found")
     ELSE LET version == Head(found)
              D1 == IF snippetId \in DOMAIN D.snippets
                    THEN UpdateSnippetRow(D, snippetId, D.snippets[snippetId].title,
                                          version.content, D.snippets[snippetId].language,
                                          D.snippets[snippetId].source)
                    ELSE D
          IN Reply(D1, 200, IF snippetId \in DOMAIN D1.snippets
                            THEN D1.snippets[snippetId] ELSE NULL)

\* variant: the rollback also deletes the snapshots newer than the one it restores
postRollback_truncate(D, snippetId, version_number) ==
  LET found == VersionRows(D.versions, snippetId, version_number)
  IN IF found = <<>> THEN Reply(D, 404, "Version not found")
     ELSE LET version == Head(found)
              D1 == UpdateSnippetRow(D, snippetId, version.title, version.content,
                                     version.language, version.source)
              D2 == [D1 EXCEPT !.versions =
                       SelectSeq(@, LAMBDA v : v.snippet_id # snippetId
                                               \/ v.version_number <= version_number)]
          IN Reply(D2, 200, IF snippetId \in DOMAIN D2.snippets
                            THEN D2.snippets[snippetId] ELSE NULL)

\* POST /api/snippets/:id/rollback
postRollback(D, snippetId, version_number) ==
  LET found == VersionRows(D.versions, snippetId, version_number)
  IN IF found = <<>> THEN Reply(D, 404, "Version not found")
     ELSE LET version == Head(found)
              D1 == UpdateSnippetRow(D, snippetId, version.title, version.content,
                                     version.language, version.source)
          IN Reply(D1, 200, IF snippetId \in DOMAIN D1.snippets
                            THEN D1.snippets[snippetId] ELSE NULL)

\* ---------------------------------------------------------------- diff
Max(a, b) == IF a >= b THEN a ELSE b

\* length of a longest common subsequence of two line sequences
RECURSIVE lcs(_, _)
lcs(a, b) ==
  IF a = <<>> \/ b = <<>> THEN 0
  ELSE IF Head(a) = Head(b) THEN 1 + lcs(Tail(a), Tail(b))
  ELSE Max(lcs(Tail(a), b), lcs(a, Tail(b)))

\* the line edit script from oldStr to newStr: " " kept, "-" removed, "+" added
RECURSIVE diffLines(_, _)
diffLines(oldStr, newStr) ==
  IF oldStr = <<>> THEN [i \in 1..Len(newStr) |-> <<"+", newStr[i]>>]
  ELSE IF newStr = <<>> THEN [i \in 1..Len(oldStr) |-> <<"-", oldStr[i]>>]
  ELSE IF Head(oldStr) = Head(newStr)
       THEN << <<" ", Head(oldStr)>> >> \o diffLines(Tail(oldStr), Tail(newStr))
  ELSE IF lcs(Tail(oldStr), newStr) >= lcs(oldStr, Tail(newStr))
       THEN << <<"-", Head(oldStr)>> >> \o diffLines(Tail(oldStr), newStr)
  ELSE << <<"+", Head(newStr)>> >> \o diffLines(oldStr, Tail(newStr))

\* createTwoFilesPatch(oldFileName, newFileName, oldStr, newStr, , , {context: 3}):
\* the two header labels and the hunk lines. The contents of the model are
\* shorter than the context, so a patch with a change is one hunk over the
\* whole file; a patch without a change has no hunk.
createTwoFilesPatch(oldFileName, newFileName, oldStr, newStr) ==
  [oldFileName |-> oldFileName, newFileName |-> newFileName,
   hunk |-> IF oldStr = newStr THEN <<>> ELSE diffLines(oldStr, newStr)]

\* GET /api/snippets/:id/diff/:version were it to answer a version that does
\* not exist with an empty patch
getDiff_lenient(D, snippetId, versionNumber) ==
  IF snippetId \notin DOMAIN D.snippets THEN Reply(D, 404, "Snippet not found")
  ELSE LET found == VersionRows(D.versions, snippetId, versionNumber)
           current == D.snippets[snippetId]
           version == IF found = <<>>
                      THEN [title |-> current.title, content |-> current.content,
                            version_number |-> versionNumber]
                      ELSE Head(found)
       IN Reply(D, 200,
                [current |-> [title |-> current.title, content |-> current.content,
                              version |-> current.version],
                 version |-> [title |-> version.title, content |-> version.content,
                              version |-> version.version_number],
                 diff |-> createTwoFilesPatch(
                            <<current.title, "(current)">>,
                            <<version.title, "v", version.version_number>>,
                            current.content, version.content)])

\* GET /api/snippets/:id/diff/:version were it to hand the snapshot to
\* createTwoFilesPatch as the old file and the live snippet as the new one
getDiff_snapshotFirst(D, snippetId, versionNumber) ==
  IF snippetId \notin DOMAIN D.snippets THEN Reply(D, 404, "Snippet not found")
  ELSE LET found == VersionRows(D.versions, snippetId, versionNumber)
       IN IF found = <<>> THEN Reply(D, 404, "Version not found")
          ELSE LET current == D.snippets[snippetId]
                   version == Head(found)
               IN Reply(D, 200,
                    [current |-> [title |-> current.title, content |-> current.content,
                                  version |-> current.version],
                     version |-> [title |-> version.title, content |-> version.content,
                                  version |-> version.version_number],
                     diff |-> createTwoFilesPatch(
                                <<version.title, "v", version.version_number>>,
                                <<current.title, "(current)">>,
                                version.content, current.content)])

\* GET /api/snippets/:id/diff/:version
getDiff(D, snippetId, versionNumber) ==
  IF snippetId \notin DOMAIN D.snippets THEN Reply(D, 404, "Snippet not found")
  ELSE LET found == VersionRows(D.versions, snippetId, versionNumber)
       IN IF found = <<>> THEN Reply(D, 404, "Version not found")
          ELSE LET current == D.snippets[snippetId]
                   version == Head(found)
               IN Reply(D, 200,
                    [current |-> [title |-> current.title, content |-> current.content,
                                  version |-> current.version],
                     version |-> [title |-> version.title, content |-> version.content,
                                  version |-> version.version_number],
                     diff |-> createTwoFilesPatch(
                                <<current.title, "(current)">>,
                                <<version.title, "v", version.version_number>>,
                                current.content, version.content)])

\* ---------------------------------------------------------------- routes/favorites.js
\* POST /api/favorites/:id
postFavorite(D, snippetId) ==
  IF snippetId \notin DOMAIN D.snippets THEN Reply(D, 404, "Snippet not found")
  ELSE IF BagIn(snippetId, D.favorites) THEN Reply(D, 409, "Snippet is already favorited")
  ELSE LET inserted == InsertFavoriteRow(D, snippetId)
       IN IF inserted.failed THEN Reply(D, 500, "Failed to add to favorites")
          ELSE Reply(inserted.db, 200, "Snippet added to favorites")

\* DELETE /api/favorites/:id
deleteFavorite(D, snippetId) ==
  IF ~BagIn(snippetId, D.favorites) THEN Reply(D, 404, "Snippet is not in favorites")
  ELSE Reply(DeleteFavoriteRows(D, snippetId), 200, "Snippet removed from favorites")

\* POST /api/favorites/toggle/:id were it to add a marker whatever the
\* status was
toggleFavorite_add(D, snippetId) ==
  IF snippetId \notin DOMAIN D.snippets THEN Reply(D, 404, "Snippet not found")
  ELSE LET inserted == InsertFavoriteRow(D, snippetId)
       IN IF inserted.failed THEN Reply(D, 500, "Failed to toggle favorite")
          ELSE Reply(inserted.db, 200, [is_favorite |-> TRUE])

\* POST /api/favorites/toggle/:id
toggleFavorite(D, snippetId) ==
  IF snippetId \notin DOMAIN D.snippets THEN Reply(D, 404, "Snippet not found")
  ELSE IF BagIn(snippetId, D.favorites)
  THEN Reply(DeleteFavoriteRows(D, snippetId), 200, [is_favorite |-> FALSE])
  ELSE LET inserted == InsertFavoriteRow(D, snippetId)
       IN IF inserted.failed THEN Reply(D, 500, "Failed to toggle favorite")
          ELSE Reply(inserted.db, 200, [is_favorite |-> TRUE])

\* ---------------------------------------------------------------- routes/tags.js
\* POST /api/tags
postTag(D, name, color) ==
  IF TagIdsByName(D, name) # {} THEN Reply(D, 409, "Tag already exists")
  ELSE LET D1 == InsertTagRow(D, name, IF color.present THEN color.val ELSE DefaultTagColor)
       IN Reply(D1, 201, D1.tagSeq)

\* PUT /api/tags/:id
putTag(D, tagId, name, color) ==
  IF tagId \notin DOMAIN D.tags THEN Reply(D, 404, "Tag not found")
  ELSE IF TagIdsByName(D, name) \ {tagId} # {} THEN Reply(D, 409, "Tag name already exists")
  ELSE Reply([D EXCEPT !.tags[tagId] =
                [name |-> name, color |-> IF color.present THEN color.val ELSE @.color]],
             200, tagId)

\* DELETE /api/tags/:id were it to detach a tag in use and delete it
deleteTag_detach(D, tagId) ==
  IF tagId \notin DOMAIN D.tags THEN Reply(D, 404, "Tag not found")
  ELSE Reply([D EXCEPT !.tags = [t \in DOMAIN @ \ {tagId} |-> @[t]],
                       !.snippet_tags = {st \in @ : st[2] # tagId}],
             200, "Tag deleted successfully")

\* DELETE /api/tags/:id
deleteTag(D, tagId) ==
  LET usageCount == Cardinality({st \in D.snippet_tags : st[2] = tagId})
  IN IF tagId \notin DOMAIN D.tags THEN Reply(D, 404, "Tag not found")
     ELSE IF usageCount > 0 THEN Reply(D, 400, [usage_count |-> usageCount])
     ELSE Reply([D EXCEPT !.tags = [t \in DOMAIN @ \ {tagId} |-> @[t]],
                          !.snippet_tags = IF foreign_keys THEN {st \in @ : st[2] # tagId} ELSE @],
                200, "Tag deleted successfully")

\* ---------------------------------------------------------------- services/exportImport.js
\* String.prototype.split(',') on one tag name: a name holding a comma comes
\* apart (GROUP_CONCAT joins the names with ','), on the names used
splitComma(name) == IF name = "c,cpp" THEN <<"c", "cpp">> ELSE <<name>>

RECURSIVE Flatten(_)
Flatten(ss) == IF ss = <<>> THEN <<>> ELSE Head(ss) \o Flatten(Tail(ss))

\* a finite set of integers as an ascending sequence
RECURSIVE Ascending(_)
Ascending(S) ==
  IF S = {} THEN <<>>
  ELSE LET m == CHOOSE x \in S : \A y \in S : x <= y
       IN <<m>> \o Ascending(S \ {m})

\* the rows of `snippet_tags JOIN tags` for one snippet, in tag id order
LinkedTagIds(D, snippetId) == Ascending({st[2] : st \in {l \in D.snippet_tags : l[1] = snippetId}})

\* rows.map(row => ...) of exportToJSON, for one row: tag_names and tag_colors
\* are the GROUP_CONCAT of the linked tags, split on ',' again
exportRow(D, snippetId) ==
  LET row == D.snippets[snippetId]
      tagIds == LinkedTagIds(D, snippetId)
      names == Flatten([i \in 1..Len(tagIds) |-> splitComma(D.tags[tagIds[i]].name)])
      colors == [i \in 1..Len(tagIds) |-> D.tags[tagIds[i]].color]
  IN [id |-> snippetId, title |-> row.title, content |-> row.content,
      language |-> Some(row.language), source |-> row.source, version |-> row.version,
      is_favorite |-> BagIn(snippetId, D.favorites),
      tags |-> Some([i \in 1..Len(names) |->
                       [name |-> names[i],
                        color |-> IF i <= Len(colors) THEN Some(colors[i]) ELSE Absent]])]

\* the orders `ORDER BY s.created_at DESC` may return the selected rows in:
\* created_at counts whole seconds, rows inserted within one second tie and
\* SQL leaves their order open; any two rows of the model may tie
ExportOrders(D, ids) ==
  {o \in [1..Cardinality(ids) -> ids] : \A i, j \in DOMAIN o : i # j => o[i] # o[j]}

\* exportToJSON(snippetIds), the rows coming back in the given order
exportToJSON(D, snippetIds, order) ==
  LET snippetsOut == [i \in 1..Len(order) |-> exportRow(D, order[i])]
  IN [version |-> "1.1.0", total_snippets |-> Len(snippetsOut), snippets |-> Some(snippetsOut)]

\* the ids exportToJSON selects: all, or those in a non-empty filter
ExportSelection(D, snippetIds) ==
  IF snippetIds # {} THEN DOMAIN D.snippets \cap snippetIds ELSE DOMAIN D.snippets

\* ensureTagExists(tagName, tagColor = '#6B7280')
ensureTagExists(D, tagName, tagColor) ==
  IF TagIdsByName(D, tagName) = {}
  THEN InsertTagRow(D, tagName, IF tagColor.present THEN tagColor.val ELSE DefaultTagColor)
  ELSE D

\* an element of a tags list that is null
NullTag == NullRecord

\* the loop over snippetData.tags in importSingleSnippet: a tag is a bare
\* name ([str |-> name]) or an object ([name |-> , color |-> ]); reading the
\* name of a null element throws, the tags before it having been linked
RECURSIVE importTagsLoop(_, _, _)
importTagsLoop(D, snippetId, tagList) ==
  IF tagList = <<>> THEN [db |-> D, threw |-> FALSE]
  ELSE IF Head(tagList) = NullTag THEN [db |-> D, threw |-> TRUE]
  ELSE LET tagData == Head(tagList)
           D2 == IF "str" \in DOMAIN tagData
                 THEN LET D1 == ensureTagExists(D, tagData.str, Absent)
                      IN InsertOrIgnoreSnippetTag(D1, snippetId, TagIdByName(D1, tagData.str))
                 ELSE IF tagData.name # ""
                 THEN LET D1 == ensureTagExists(D, tagData.name, tagData.color)
                      IN InsertOrIgnoreSnippetTag(D1, snippetId, TagIdByName(D1, tagData.name))
                 ELSE D
       IN importTagsLoop(D2, snippetId, Tail(tagList))

\* the same lookup with its two parameters bound the other way round: a title
\* is never equal to a content of the model, so no row matches
SnippetIdsByTitleContent_swapped(D, title, content) == {}

\* SELECT id FROM snippets WHERE title = ? AND content = ?
SnippetIdsByTitleContent(D, title, content) ==
  {i \in DOMAIN D.snippets : D.snippets[i].title = title /\ D.snippets[i].content = content}

\* the id importSingleSnippet goes on with after the create path: db.run
\* resolves {id, changes}, and the code reads result.lastID
CreatedSnippetId(result) == undefined

\* INSERT OR IGNORE INTO favorites (snippet_id) / DELETE FROM favorites WHERE snippet_id = ?
importFavorite(D, snippetId, is_favorite) ==
  IF is_favorite
  THEN IF snippetId = undefined \/ InsertFavoriteRow(D, snippetId).failed THEN D
       ELSE InsertFavoriteRow(D, snippetId).db
  ELSE DeleteFavoriteRows(D, snippetId)

\* importSingleSnippet(snippetData, options): the tables afterwards, whether
\* it threw, and its message
importSingleSnippet(D, snippetData, options) ==
  IF snippetData = NullRecord
  THEN [db |-> D, threw |-> TRUE, message |-> "Cannot read properties of null (reading 'title')"]
  ELSE IF snippetData.title = "" \/ snippetData.content = <<>>
  THEN [db |-> D, threw |-> TRUE, message |-> "Missing required fields: title or content"]
  ELSE
    LET matches == SnippetIdsByTitleContent(D, snippetData.title, snippetData.content)
        existingSnippet == IF matches = {} THEN undefined
                           ELSE CHOOSE i \in matches : \A j \in matches : i <= j
        language == IF snippetData.language.present /\ snippetData.language.val # ""
                    THEN snippetData.language.val ELSE DefaultImportLanguage
        source == IF snippetData.source = "" THEN NULL ELSE snippetData.source
    IN IF existingSnippet # undefined /\ options.skipDuplicates /\ ~options.overwriteExisting
       THEN [db |-> D, threw |-> TRUE, message |-> "Snippet already exists (skipped)"]
       ELSE
         LET D1 == IF existingSnippet # undefined /\ options.overwriteExisting
                   THEN UpdateSnippetRow(D, existingSnippet, snippetData.title,
                                         snippetData.content, language, source)
                   ELSE IF existingSnippet = undefined
                   THEN InsertSnippetRow(D, snippetData.title, snippetData.content,
                                         language, source)
                   ELSE D
             snippetId == IF existingSnippet # undefined /\ options.overwriteExisting
                          THEN existingSnippet
                          ELSE IF existingSnippet = undefined
                          THEN CreatedSnippetId(D1.snippetSeq)
                          ELSE undefined
             tagged == IF IsArray(snippetData.tags)
                       THEN importTagsLoop(DeleteSnippetTags(D1, snippetId), snippetId,
                                           snippetData.tags.val)
                       ELSE [db |-> D1, threw |-> FALSE]
         IN IF tagged.threw
            THEN [db |-> tagged.db, threw |-> TRUE,
                  message |-> "Cannot read properties of null (reading 'name')"]
            ELSE [db |-> importFavorite(tagged.db, snippetId, snippetData.is_favorite),
                  threw |-> FALSE, message |-> "Successfully imported"]

\* the for loop of importFromJSON were it to stop at the first record that
\* fails
RECURSIVE importLoop_failfast(_, _, _, _)
importLoop_failfast(D, records, options, results) ==
  IF records = <<>> THEN [db |-> D, results |-> results, aborted |-> FALSE]
  ELSE LET snippetData == Head(records)
           r == importSingleSnippet(D, snippetData, options)
       IN IF r.threw
          THEN [db |-> r.db, results |-> [results EXCEPT !.errors = @ + 1], aborted |-> FALSE]
          ELSE importLoop_failfast(r.db, Tail(records), options,
                                   [results EXCEPT
                                      !.success = @ + 1,
                                      !.details = Append(@, [title |-> snippetData.title,
                                                             status |-> "imported",
                                                             message |-> r.message])])

\* the body of the for loop of importFromJSON for one record, r being what
\* importSingleSnippet made of it: one ledger entry per record. The catch
\* block reads snippetData.title again, so a null record throws out of the
\* loop after errors was counted up.
RECURSIVE importLoop(_, _, _, _)
importRecord(snippetData, r, rest, options, results) ==
  IF r.threw /\ snippetData = NullRecord
  THEN [db |-> r.db, results |-> [results EXCEPT !.errors = @ + 1], aborted |-> TRUE]
  ELSE importLoop(r.db, rest, options,
                  [results EXCEPT
                     !.success = IF r.threw THEN @ ELSE @ + 1,
                     !.errors = IF r.threw THEN @ + 1 ELSE @,
                     !.details = Append(@, [title |-> snippetData.title,
                                            status |-> IF r.threw THEN "error" ELSE "imported",
                                            message |-> r.message])])

\* the for loop of importFromJSON over the records left
importLoop(D, records, options, results) ==
  IF records = <<>> THEN [db |-> D, results |-> results, aborted |-> FALSE]
  ELSE importRecord(Head(records), importSingleSnippet(D, Head(records), options),
                    Tail(records), options, results)

\* importFromJSON were it to read a missing snippets array as an empty one
importFromJSON_lenient(D, importData, options) ==
  LET records == IF importData # NotAnObject /\ IsArray(importData.snippets)
                 THEN importData.snippets.val ELSE <<>>
      r == importLoop(D, records, options,
                      [success |-> 0, skipped |-> 0, errors |-> 0, details |-> <<>>])
  IN IF r.aborted
     THEN [db |-> D, threw |-> TRUE, results |-> "Import failed"]
     ELSE [db |-> r.db, threw |-> FALSE, results |-> r.results]

\* importFromJSON(importData, options): BEGIN TRANSACTION, the loop, COMMIT.
\* Without a snippets array it throws before the transaction begins, and the
\* ROLLBACK of the catch block fails in turn as no transaction is active; an
\* error thrown out of the loop is answered by a ROLLBACK of the transaction.
importFromJSON(D, importData, options) ==
  IF importData = NotAnObject \/ ~IsArray(importData.snippets)
  THEN [db |-> D, threw |-> TRUE,
        results |-> "SQLITE_ERROR: cannot rollback - no transaction is active"]
  ELSE LET r == importLoop(D, importData.snippets.val, options,
                           [success |-> 0, skipped |-> 0, errors |-> 0, details |-> <<>>])
       IN IF r.aborted
          THEN [db |-> D, threw |-> TRUE, results |-> "Import failed"]
          ELSE [db |-> r.db, threw |-> FALSE, results |-> r.results]

\* isVersionCompatible(version)
isVersionCompatible(version) == version \in {"1.0.0", "1.1.0"}

\* variant: the messages carry the index itself
validateSnippet_index(snippet, index) ==
  (IF snippet.title = "" \/ snippet.title = NotText
   THEN << [snippet |-> index, message |-> "Missing or invalid title"] >> ELSE <<>>)
  \o (IF snippet.content = <<>> \/ snippet.content = <<NotText>>
      THEN << [snippet |-> index, message |-> "Missing or invalid content"] >> ELSE <<>>)
  \o (IF snippet.language.present /\ snippet.language.val = NotText
      THEN << [snippet |-> index, message |-> "Invalid language field"] >> ELSE <<>>)
  \o (IF snippet.tags.present /\ ~IsArray(snippet.tags)
      THEN << [snippet |-> index, message |-> "Invalid tags field (must be array)"] >>
      ELSE <<>>)

\* validateSnippet(snippet, index): the messages, each with its label
validateSnippet(snippet, index) ==
  (IF snippet.title = "" \/ snippet.title = NotText
   THEN << [snippet |-> index + 1, message |-> "Missing or invalid title"] >> ELSE <<>>)
  \o (IF snippet.content = <<>> \/ snippet.content = <<NotText>>
      THEN << [snippet |-> index + 1, message |-> "Missing or invalid content"] >> ELSE <<>>)
  \o (IF snippet.language.present /\ snippet.language.val = NotText
      THEN << [snippet |-> index + 1, message |-> "Invalid language field"] >> ELSE <<>>)
  \o (IF snippet.tags.present /\ ~IsArray(snippet.tags)
      THEN << [snippet |-> index + 1, message |-> "Invalid tags field (must be array)"] >>
      ELSE <<>>)

\* data.snippets.forEach((snippet, index) => ...) of validateImportData, from
\* the given index on; reading a field of a null snippet throws
RECURSIVE validateEach(_, _, _)
validateEach(snippetList, index, validation) ==
  IF index >= Len(snippetList) THEN [validation |-> validation, threw |-> FALSE]
  ELSE LET snippet == snippetList[index + 1]
       IN IF snippet = NullRecord THEN [validation |-> validation, threw |-> TRUE]
          ELSE LET snippetErrors == validateSnippet(snippet, index)
               IN validateEach(snippetList, index + 1,
                    IF Len(snippetErrors) > 0
                    THEN [validation EXCEPT !.errors = @ \o snippetErrors,
                                            !.stats.invalidSnippets = @ + 1]
                    ELSE [validation EXCEPT !.stats.validSnippets = @ + 1])

\* variant: a document without a snippets array is read as one without snippets
validateImportData_lenient(data) ==
  LET validation == [valid |-> TRUE, errors |-> <<>>, warnings |-> <<>>,
                     stats |-> [totalSnippets |-> 0, validSnippets |-> 0,
                                invalidSnippets |-> 0]]
  IN IF data = NotAnObject
     THEN [validation EXCEPT !.valid = FALSE,
             !.errors = << [message |-> "Invalid file format: not a valid JSON object"] >>]
     ELSE IF ~IsArray(data.snippets) THEN validation
     ELSE LET counted == [validation EXCEPT !.stats.totalSnippets = Len(data.snippets.val)]
              each == validateEach(data.snippets.val, 0, counted)
          IN IF each.threw
             THEN [each.validation EXCEPT !.valid = FALSE,
                     !.errors = Append(@, [message |-> "Validation error"])]
             ELSE [each.validation EXCEPT !.valid = (each.validation.errors = <<>>)]

\* validateImportData(data): the report. Its try / catch turns an error
\* thrown on the way into one more entry of errors.
validateImportData(data) ==
  LET validation == [valid |-> TRUE, errors |-> <<>>, warnings |-> <<>>,
                     stats |-> [totalSnippets |-> 0, validSnippets |-> 0,
                                invalidSnippets |-> 0]]
  IN IF data = NotAnObject
     THEN [validation EXCEPT !.valid = FALSE,
             !.errors = << [message |-> "Invalid file format: not a valid JSON object"] >>]
     ELSE IF ~IsArray(data.snippets)
     THEN [validation EXCEPT !.valid = FALSE,
             !.errors = << [message |-> "Invalid file format: missing or invalid snippets array"] >>]
     ELSE LET counted == [validation EXCEPT !.stats.totalSnippets = Len(data.snippets.val)]
              warned == IF "version" \in DOMAIN data /\ ~isVersionCompatible(data.version)
                        THEN [counted EXCEPT !.warnings = << data.version >>]
                        ELSE counted
              each == validateEach(data.snippets.val, 0, warned)
          IN IF each.threw
             THEN [each.validation EXCEPT !.valid = FALSE,
                     !.errors = Append(@, [message |-> "Validation error"])]
             ELSE [each.validation EXCEPT !.valid = (each.validation.errors = <<>>)]

\* POST /api/snippets/import, the uploaded file parsed to importData
postImport(D, importData, options) ==
  LET report == validateImportData(importData)
  IN IF report = Thrown THEN Reply(D, 500, "Import failed")
     ELSE IF ~report.valid
     THEN Reply(D, 400, [error |-> "Import validation failed", details |-> report.errors])
     ELSE LET r == importFromJSON(D, importData, options)
          IN IF r.threw THEN Reply(D, 500, r.results) ELSE Reply(r.db, 200, r.results)

\* POST /api/snippets/validate-import, the uploaded file parsed to importData
postValidateImport(D, importData) ==
  LET report == validateImportData(importData)
  IN IF report = Thrown THEN Reply(D, 500, "Failed to validate import file")
     ELSE Reply(D, 200, report)

\* ---------------------------------------------------------------- GET routes of routes/snippets.js
\* exportToMarkdown(snippetIds): the heading, the total, and one section per
\* exported snippet
exportToMarkdown(D, snippetIds, order) ==
  LET exported == exportToJSON(D, snippetIds, order).snippets.val
  IN [heading |-> "# MySnippetHub Export", total |-> Len(exported),
      sections |-> [k \in DOMAIN exported |->
                      [title |-> exported[k].title, language |-> exported[k].language.val,
                       source |-> exported[k].source, favorite |-> exported[k].is_favorite,
                       tags |-> [j \in DOMAIN exported[k].tags.val |->
                                   exported[k].tags.val[j].name],
                       content |-> exported[k].content]]]

\* getSnippetWithTags(snippetId): the row with its tags and favorite status
getSnippetWithTags(D, snippetId) ==
  [id |-> snippetId, title |-> D.snippets[snippetId].title,
   content |-> D.snippets[snippetId].content, language |-> D.snippets[snippetId].language,
   source |-> D.snippets[snippetId].source, version |-> D.snippets[snippetId].version,
   tags |-> {[id |-> l[2], name |-> D.tags[l[2]].name, color |-> D.tags[l[2]].color] :
               l \in {st \in D.snippet_tags : st[1] = snippetId}},
   is_favorite |-> BagIn(snippetId, D.favorites)]

\* GET /api/snippets/:id
getSnippet(D, snippetId) ==
  IF snippetId \notin DOMAIN D.snippets THEN Reply(D, 404, "Snippet not found")
  ELSE Reply(D, 200, getSnippetWithTags(D, snippetId))

\* GET /api/snippets/export?type=, without ids
getExport(D, type, order) ==
  IF type = "json" THEN Reply(D, 200, exportToJSON(D, {}, order))
  ELSE IF type \in {"md", "markdown"} THEN Reply(D, 200, exportToMarkdown(D, {}, order))
  ELSE Reply(D, 400, "Invalid export type. Use \"json\" or \"md\".")

\* a path segment is text; the integer a segment stands for as a value of
\* an INTEGER column, 0 (no row has it) for text that is no number
SegmentNumber(segment) ==
  CASE segment = "1" -> 1 [] segment = "2" -> 2 [] segment = "3" -> 3 [] OTHER -> 0

\* the GET routes of the snippets router in the order they are registered,
\* a segment that starts with ':' being a parameter
GetRoutes ==
  << [path |-> <<>>, handler |-> "list"],
     [path |-> <<":id">>, handler |-> "snippet"],
     [path |-> <<":id", "versions">>, handler |-> "versions"],
     [path |-> <<":id", "diff", ":version">>, handler |-> "diff"],
     [path |-> <<"export">>, handler |-> "export"] >>

\* Express matches a route when every segment is equal or a parameter
RouteMatches(route, path) ==
  /\ Len(route.path) = Len(path)
  /\ \A k \in DOMAIN path : route.path[k] \in {":id", ":version"} \/ route.path[k] = path[k]

\* the handler a GET request for the path is dispatched to: that of the
\* first registered route that matches
Dispatch(routes, path) ==
  LET hits == {k \in DOMAIN routes : RouteMatches(routes[k], path)}
  IN IF hits = {} THEN "none" ELSE routes[Ascending(hits)[1]].handler

\* GET /api/snippets<path>?type=<type>, the export rows coming in the order
\* given; the listing is left at its status
getRequest(D, path, type, order) ==
  LET handler == Dispatch(GetRoutes, path)
  IN CASE handler = "snippet" -> getSnippet(D, SegmentNumber(path[1]))
       [] handler = "versions" -> getVersions(D, SegmentNumber(path[1]))
       [] handler = "diff" -> getDiff(D, SegmentNumber(path[1]), SegmentNumber(path[3]))
       [] handler = "export" -> getExport(D, type, order)
       [] handler = "list" -> Reply(D, 200, "listing")
       [] OTHER -> Reply(D, 404, "Cannot GET")

\* ---------------------------------------------------------------- the system
\* title or content of snippet i differs between two states of the tables
TextChanged(D, E, i) ==
  D.snippets[i].title # E.snippets[i].title \/ D.snippets[i].content # E.snippets[i].content

\* A request is served: the tables become what its handler leaves behind.
\* `writes` tells a route that writes from one that only reads.
Serve(op, id, arg, r, writes) ==
  /\ WithinBounds(r.db)
  /\ Commit(r.db)
  /\ edits' = [i \in DOMAIN r.db.snippets |->
                 IF i \notin DOMAIN snippets THEN 0
                 ELSE IF TextChanged(DB, r.db, i) THEN edits[i] + 1 ELSE edits[i]]
  /\ last' = IF writes /\ r.status \in 200..299 THEN [op |-> op, id |-> id, arg |-> arg]
             ELSE last
  /\ UNCHANGED <<validated, calls, txn>>

CreateSnippet(title, content, language, source, tagNames) ==
  Serve("create", snippetSeq + 1, 0,
        postSnippet(DB, title, content, language, source, tagNames), TRUE)

UpdateSnippet(snippetId, title, content, language, source, tagNames) ==
  Serve("update", snippetId, 0,
        putSnippet(DB, snippetId, title, content, language, source, tagNames), TRUE)

DeleteSnippet(snippetId) == Serve("delete", snippetId, 0, deleteSnippet(DB, snippetId), TRUE)

GetVersions(snippetId) == Serve("versions", snippetId, 0, getVersions(DB, snippetId), FALSE)

Rollback(snippetId, version_number) ==
  Serve("rollback", snippetId, version_number,
        postRollback(DB, snippetId, version_number), TRUE)

GetDiff(snippetId, versionNumber) ==
  Serve("diff", snippetId, versionNumber, getDiff(DB, snippetId, versionNumber), FALSE)

\* a GET request to the snippets router
Get(path, type) ==
  \E order \in ExportOrders(DB, DOMAIN snippets) :
    Serve("get", 0, 0, getRequest(DB, path, type, order), FALSE)

AddFavorite(snippetId) == Serve("favorite", snippetId, 0, postFavorite(DB, snippetId), TRUE)

RemoveFavorite(snippetId) ==
  Serve("unfavorite", snippetId, 0, deleteFavorite(DB, snippetId), TRUE)

ToggleFavorite(snippetId) == Serve("toggle", snippetId, 0, toggleFavorite(DB, snippetId), TRUE)

CreateTag(name, color) == Serve("createTag", tagSeq + 1, 0, postTag(DB, name, color), TRUE)

UpdateTag(tagId, name, color) ==
  Serve("updateTag", tagId, 0, putTag(DB, tagId, name, color), TRUE)

DeleteTag(tagId) == Serve("deleteTag", tagId, 0, deleteTag(DB, tagId), TRUE)

\* POST /api/snippets/import: the document is validated, then handed to
\* importFromJSON(importData, options)
ImportFromJSON(importData, options) ==
  Serve("import", 0, 0, postImport(DB, importData, options), TRUE)

\* a request to validate-import: the route reads the store not at all
ValidateImport(importData) ==
  /\ validated' = [done |-> TRUE, data |-> importData,
                   reply |-> postValidateImport(DB, importData)]
  /\ UNCHANGED <<store, edits, last, calls, txn>>

\* the options of POST /import when the request names none
DefaultOptions == [overwriteExisting |-> FALSE, skipDuplicates |-> TRUE, preserveIds |-> FALSE]

\* exportToJSON() handed back to importFromJSON with
\* {overwriteExisting: true, skipDuplicates: false}
RoundTripOptions == [overwriteExisting |-> TRUE, skipDuplicates |-> FALSE, preserveIds |-> FALSE]
roundTrip(D, order) == importFromJSON(D, exportToJSON(D, {}, order), RoundTripOptions)
RoundTrip ==
  \E order \in ExportOrders(DB, DOMAIN snippets) :
    LET r == roundTrip(DB, order)
    IN Serve("roundtrip", 0, 0, Reply(r.db, IF r.threw THEN 500 ELSE 200, r.results), TRUE)

\* ---------------------------------------------------------------- requests in flight
\* Every `await database...` hands control back to the event loop, so the
\* handlers of two requests interleave statement by statement on the one
\* connection of db.js. An import call records what it did: the snippets it
\* created, whether it issued BEGIN (begun) and was granted it (opened), how
\* many COMMIT and ROLLBACK statements it issued (ended), and whether one of
\* them was issued while no transaction opened by this call was open (stray).
Idle == [pc |-> "idle"]

\* the connection in autocommit mode
NoTransaction == [open |-> FALSE, owner |-> 0, saved |-> << >>]

\* the snippets an import call created, between the tables before and after
CreatedBy(D, E) == DOMAIN E.snippets \ DOMAIN D.snippets

\* a statement of a handler in flight has run: the tables become D
Statement(D) ==
  /\ Commit(D)
  /\ edits' = [i \in DOMAIN D.snippets |-> IF i \in DOMAIN edits THEN edits[i] ELSE 0]
  /\ UNCHANGED <<last, validated>>

\* a favorites request arrives: POST /:id ("add"), DELETE /:id ("remove") or
\* POST /toggle/:id ("toggle"); remove starts at the SELECT on favorites
StartFavorite(slot, op, snippetId) ==
  /\ calls[slot] = Idle
  /\ calls' = [calls EXCEPT ![slot] =
                 [kind |-> "favorite", op |-> op, id |-> snippetId,
                  pc |-> IF op = "remove" THEN "existing" ELSE "snippet", status |-> 0]]
  /\ UNCHANGED <<store, edits, last, validated, txn>>

\* SELECT * FROM snippets WHERE id = ? of add and toggle
FavoriteSelectSnippet(slot) ==
  /\ calls[slot].pc = "snippet"
  /\ calls' = [calls EXCEPT ![slot] =
                 IF @.id \in DOMAIN snippets THEN [@ EXCEPT !.pc = "existing"]
                 ELSE [@ EXCEPT !.pc = "done", !.status = 404]]
  /\ UNCHANGED <<store, edits, last, validated, txn>>

\* SELECT * FROM favorites WHERE snippet_id = ?, and the branch taken on it
FavoriteSelectExisting(slot) ==
  /\ calls[slot].pc = "existing"
  /\ calls' = [calls EXCEPT ![slot] =
                 IF BagIn(@.id, favorites)
                 THEN CASE @.op = "add" -> [@ EXCEPT !.pc = "done", !.status = 409]
                        [] @.op = "remove" -> [@ EXCEPT !.pc = "delete"]
                        [] @.op = "toggle" -> [@ EXCEPT !.pc = "delete"]
                 ELSE CASE @.op = "add" -> [@ EXCEPT !.pc = "insert"]
                        [] @.op = "remove" -> [@ EXCEPT !.pc = "done", !.status = 404]
                        [] @.op = "toggle" -> [@ EXCEPT !.pc = "insert"]]
  /\ UNCHANGED <<store, edits, last, validated, txn>>

\* INSERT INTO favorites (snippet_id) VALUES (?); a constraint that fails
\* lands in the catch block, answered with 500
FavoriteInsert(slot) ==
  /\ calls[slot].pc = "insert"
  /\ Statement(InsertFavoriteRow(DB, calls[slot].id).db)
  /\ calls' = [calls EXCEPT ![slot] =
                 [@ EXCEPT !.pc = "done",
                           !.status = IF InsertFavoriteRow(DB, calls[slot].id).failed THEN 500
                                       ELSE 200]]
  /\ UNCHANGED txn

\* DELETE FROM favorites WHERE snippet_id = ?
FavoriteDelete(slot) ==
  /\ calls[slot].pc = "delete"
  /\ Statement(DeleteFavoriteRows(DB, calls[slot].id))
  /\ calls' = [calls EXCEPT ![slot] = [@ EXCEPT !.pc = "done", !.status = 200]]
  /\ UNCHANGED txn

\* POST /api/snippets/import arrives: the document is validated at once, and
\* importFromJSON starts if it is valid
StartImport(slot, importData, options) ==
  /\ calls[slot] = Idle
  /\ validateImportData(importData).valid
  /\ calls' = [calls EXCEPT ![slot] =
                 [kind |-> "import", records |-> importData.snippets.val,
                  options |-> options, pc |-> "begin", threw |-> FALSE,
                  results |-> [success |-> 0, skipped |-> 0, errors |-> 0, details |-> <<>>],
                  created |-> {}, begun |-> FALSE, opened |-> FALSE, ended |-> 0,
                  stray |-> FALSE]]
  /\ UNCHANGED <<store, edits, last, validated, txn>>

\* await db.run('BEGIN TRANSACTION'): inside a transaction SQLite refuses it
\* (cannot start a transaction within a transaction) and the catch block is
\* entered
ImportBegin(slot) ==
  /\ calls[slot].pc = "begin"
  /\ IF txn.open
     THEN /\ calls' = [calls EXCEPT ![slot] = [@ EXCEPT !.begun = TRUE, !.pc = "rollback"]]
          /\ UNCHANGED txn
     ELSE /\ calls' = [calls EXCEPT ![slot] =
                         [@ EXCEPT !.begun = TRUE, !.opened = TRUE,
                                   !.pc = IF calls[slot].records = <<>> THEN "commit" ELSE "record"]]
          /\ txn' = [open |-> TRUE, owner |-> slot, saved |-> DB]
  /\ UNCHANGED <<store, edits, last, validated>>

\* one turn of the for loop: importSingleSnippet for the next record, and
\* its ledger entry
ImportRecord(slot) ==
  /\ calls[slot].pc = "record"
  /\ LET call == calls[slot]
         r == importRecord(Head(call.records),
                           importSingleSnippet(DB, Head(call.records), call.options),
                           <<>>, call.options, call.results)
     IN /\ WithinBounds(r.db)
        /\ Statement(r.db)
        /\ calls' = [calls EXCEPT ![slot] =
                       [@ EXCEPT !.records = Tail(@),
                                 !.results = r.results,
                                 !.created = @ \cup CreatedBy(DB, r.db),
                                 !.pc = IF r.aborted THEN "rollback"
                                        ELSE IF Tail(call.records) = <<>> THEN "commit"
                                        ELSE "record"]]
  /\ UNCHANGED txn

\* await db.run('COMMIT'): it ends whatever transaction is open on the
\* connection; with none open it fails (cannot commit - no transaction is
\* active) and the catch block is entered
ImportCommit(slot) ==
  /\ calls[slot].pc = "commit"
  /\ IF txn.open
     THEN /\ calls' = [calls EXCEPT ![slot] =
                         [@ EXCEPT !.pc = "done", !.ended = @ + 1,
                                   !.stray = @ \/ txn.owner # slot]]
          /\ txn' = NoTransaction
     ELSE /\ calls' = [calls EXCEPT ![slot] =
                         [@ EXCEPT !.pc = "rollback", !.ended = @ + 1, !.stray = TRUE]]
          /\ UNCHANGED txn
  /\ UNCHANGED <<store, edits, last, validated>>

\* await db.run('ROLLBACK') of the catch block: it undoes whatever
\* transaction is open on the connection; with none open it fails in turn.
\* Either way the call ends with an error.
ImportRollback(slot) ==
  /\ calls[slot].pc = "rollback"
  /\ calls' = [calls EXCEPT ![slot] =
                 [@ EXCEPT !.pc = "done", !.threw = TRUE, !.ended = @ + 1,
                           !.stray = @ \/ ~txn.open \/ txn.owner # slot]]
  /\ IF txn.open
     THEN /\ Statement(txn.saved)
          /\ txn' = NoTransaction
     ELSE UNCHANGED <<store, edits, last, validated, txn>>

\* the response of a request in flight is sent
Respond(slot) ==
  /\ calls[slot].pc = "done"
  /\ calls' = [calls EXCEPT ![slot] = Idle]
  /\ UNCHANGED <<store, edits, last, validated, txn>>

\* The schema just created, before any row is inserted. (The seed file only
\* inserts snippets at version 1, tags, links and favorites, rows that
\* CreateSnippet, CreateTag and AddFavorite insert as well.)
Init ==
  /\ snippets = << >>
  /\ snippetSeq = 0
  /\ versions = << >>
  /\ tags = << >>
  /\ tagSeq = 0
  /\ snippet_tags = {}
  /\ favorites = EmptyBag
  /\ edits = << >>
  /\ last = [op |-> "init", id |-> 0, arg |-> 0]
  /\ validated = [done |-> FALSE]
  /\ calls = [slot \in 1..MaxCalls |-> Idle]
  /\ txn = NoTransaction

SnippetIds == 1..MaxSnippetId
TagIds == 1..MaxTagId
VersionNumbers == 1..(MaxVersionRows + 1)

\* ---- the versioning engine: the snippet routes, every kind of request body
\* the paths and export types GET requests are made with
GetPaths == {<<>>, <<"1">>, <<"3">>, <<"export">>, <<"1", "versions">>, <<"2", "diff", "1">>}
ExportTypes == {"json", "md", "csv"}

NextVersioning ==
  \/ \E b \in SnippetBodies, tl \in TagLists :
       CreateSnippet(b.title, b.content, b.language, b.source, tl)
  \/ \E i \in SnippetIds, b \in SnippetBodies, tl \in TagLists :
       UpdateSnippet(i, b.title, b.content, b.language, b.source, tl)
  \/ \E i \in SnippetIds : DeleteSnippet(i)
  \/ \E i \in SnippetIds : GetVersions(i)
  \/ \E i \in SnippetIds, n \in VersionNumbers : Rollback(i, n)
  \/ \E i \in SnippetIds, n \in VersionNumbers : GetDiff(i, n)
  \/ \E path \in GetPaths, type \in ExportTypes : Get(path, type)

SpecVersioning == Init /\ [][NextVersioning]_vars

\* ---- validation: documents of every shape the validator tells apart
ValidatedRecords ==
  [title : {"A", "", NotText}, content : {<<"x=1">>, <<>>},
   language : {Some("python"), Some(NotText)}, source : {NULL},
   tags : {Absent, NotArray}, is_favorite : {FALSE}]
  \cup {NullRecord}
ValidatedDocuments ==
  {NotAnObject, [snippets |-> Absent], [snippets |-> NotArray]}
  \cup UNION {[snippets : {Some(rs) : rs \in [1..n -> ValidatedRecords]},
               version : {"1.1.0", "2.0.0"}] : n \in 0..MaxValidated}

NextValidation == \E d \in ValidatedDocuments : ValidateImport(d)

SpecValidation == Init /\ [][NextValidation]_vars

\* ---- the whole store: every route that writes, and export / import
\* request bodies that differ in title or in content
TextBodies == {b \in SnippetBodies : b.language = "python"}

\* the records of an import document
ImportRecords ==
  { [title |-> "A", content |-> <<"x=1">>, language |-> Some("python"), source |-> NULL,
     tags |-> Absent, is_favorite |-> FALSE],
    [title |-> "A", content |-> <<"x=1">>, language |-> Some("python"), source |-> NULL,
     tags |-> Some(<< [str |-> "web"] >>), is_favorite |-> TRUE] }
ImportDocuments ==
  UNION {[snippets : {Some(rs) : rs \in [1..n -> ImportRecords]}] : n \in 1..MaxRecords}
ImportOptions ==
  [overwriteExisting : BOOLEAN, skipDuplicates : BOOLEAN, preserveIds : {FALSE}]

Next ==
  \/ \E b \in TextBodies, tl \in TagLists :
       CreateSnippet(b.title, b.content, b.language, b.source, tl)
  \/ \E i \in SnippetIds, b \in TextBodies, tl \in TagLists :
       UpdateSnippet(i, b.title, b.content, b.language, b.source, tl)
  \/ \E i \in SnippetIds : DeleteSnippet(i)
  \/ \E i \in SnippetIds, n \in VersionNumbers : Rollback(i, n)
  \/ \E i \in SnippetIds : AddFavorite(i)
  \/ \E i \in SnippetIds : RemoveFavorite(i)
  \/ \E i \in SnippetIds : ToggleFavorite(i)
  \/ \E n \in TagNames : CreateTag(n, Absent)
  \/ \E i \in TagIds, n \in TagNames : UpdateTag(i, n, Absent)
  \/ \E i \in TagIds : DeleteTag(i)
  \/ \E d \in ImportDocuments, o \in ImportOptions : ImportFromJSON(d, o)
  \/ RoundTrip

Spec == Init /\ [][Next]_vars

\* ---- requests in flight: favorites requests and import calls, statement
\* by statement on the one connection, next to snippets created
FavoriteOps == {"add", "remove", "toggle"}
ConcurrentOptions == {DefaultOptions, [DefaultOptions EXCEPT !.skipDuplicates = FALSE]}
Slots == 1..MaxCalls

NextConcurrent ==
  \/ CreateSnippet("A", <<"x=1">>, "python", Absent, Absent)
  \/ \E slot \in Slots, op \in FavoriteOps, i \in SnippetIds : StartFavorite(slot, op, i)
  \/ \E slot \in Slots : FavoriteSelectSnippet(slot)
  \/ \E slot \in Slots : FavoriteSelectExisting(slot)
  \/ \E slot \in Slots : FavoriteInsert(slot)
  \/ \E slot \in Slots : FavoriteDelete(slot)
  \/ \E slot \in Slots, d \in ImportDocuments, o \in ConcurrentOptions :
       StartImport(slot, d, o)
  \/ \E slot \in Slots : ImportBegin(slot)
  \/ \E slot \in Slots : ImportRecord(slot)
  \/ \E slot \in Slots : ImportCommit(slot)
  \/ \E slot \in Slots : ImportRollback(slot)
  \/ \E slot \in Slots : Respond(slot)

SpecConcurrent == Init /\ [][NextConcurrent]_vars

\* ================================================================ claims
\* ---------------------------------------------------------------- C1
\* C1: a snippet starts at version 1, and after N requests that each changed
\* its title or content, listVersions returns exactly N snapshots and the
\* live snippet has version 1 + N.
C1_VersionsCountEdits ==
  \A i \in DOMAIN snippets :
    /\ Len(getVersions(DB, i).body) = edits[i]
    /\ snippets[i].version = 1 + edits[i]

\* two content-changing updates of one snippet have been served
C1_Witness ==
  \E i \in DOMAIN snippets :
    /\ last = [op |-> "update", id |-> i, arg |-> 0]
    /\ edits[i] = 2
    /\ Len(getVersions(DB, i).body) = 2

\* ---------------------------------------------------------------- C2
\* the snapshot of a snippets row
SnapshotOf(i, row) ==
  [snippet_id |-> i, title |-> row.title, content |-> row.content,
   language |-> row.language, source |-> row.source, version_number |-> row.version]

\* C2: an update that changes title or content adds exactly one snapshot, and
\* the snapshot holds the title, content, language, source and version number
\* the snippet had before the update; the live version goes up by one.
C2_UpdateSnapshotsOldRow ==
  [][\A i \in DOMAIN snippets :
       (last' = [op |-> "update", id |-> i, arg |-> 0] /\ i \in DOMAIN snippets'
        /\ TextChanged(DB, DB', i))
       => /\ versions' = Append(versions, SnapshotOf(i, snippets[i]))
          /\ snippets'[i].version = snippets[i].version + 1]_vars

\* create {A, x=1}, then update the content: one snapshot with content x=1
\* and version_number 1, the live snippet at version 2 with the new content
C2_Witness ==
  \E i \in DOMAIN snippets :
    /\ last = [op |-> "update", id |-> i, arg |-> 0]
    /\ getVersions(DB, i).body =
         << [snippet_id |-> i, title |-> "A", content |-> <<"x=1">>, language |-> "python",
             source |-> NULL, version_number |-> 1] >>
    /\ snippets[i].version = 2
    /\ snippets[i].content = <<"x=1", "y=2">>

\* ---------------------------------------------------------------- C3
\* C3: in every step of every route (update, rollback, import, tag and
\* favorite routes), the version number of a snippet goes up by exactly 1 when
\* the step changed its title or content, and stays the same otherwise; it
\* never goes down.
C3_VersionStep ==
  [][\A i \in DOMAIN snippets \cap DOMAIN snippets' :
       snippets'[i].version =
         snippets[i].version + (IF TextChanged(DB, DB', i) THEN 1 ELSE 0)]_vars

\* an import has overwritten a snippet that stands at version 3 after an
\* update and a rollback, and has made it a favorite
C3_Witness ==
  /\ last.op = "import"
  /\ \E i \in DOMAIN snippets :
       /\ snippets[i].version = 3
       /\ edits[i] = 2
       /\ BagIn(i, favorites)

\* ---------------------------------------------------------------- C4
\* C4: an update whose (trimmed) title and whose content equal the stored
\* ones creates no snapshot and leaves the version number alone, and the
\* stored language and source become the ones of the request (a source that
\* is absent or empty is stored as NULL).
C4_MetadataOnlyUpdate ==
  \A i \in DOMAIN snippets, b \in SnippetBodies, tl \in TagLists :
    (b.title # "" /\ trim(b.title) = snippets[i].title /\ b.content = snippets[i].content)
    => LET r == putSnippet(DB, i, b.title, b.content, b.language, b.source, tl)
       IN /\ r.status = 200
          /\ r.db.versions = versions
          /\ r.db.snippets[i].version = snippets[i].version
          /\ r.db.snippets[i].language = b.language
          /\ r.db.snippets[i].source =
               (IF b.source.present /\ b.source.val # "" THEN b.source.val ELSE NULL)

\* create {A, x=1, python}, then update to {A, x=1, js, source docs}: still
\* version 1 without a snapshot, language js and source docs
C4_Witness ==
  \E i \in DOMAIN snippets :
    /\ last = [op |-> "update", id |-> i, arg |-> 0]
    /\ edits[i] = 0
    /\ snippets[i] = [title |-> "A", content |-> <<"x=1">>, language |-> "js",
                      source |-> "docs", version |-> 1]
    /\ versions = <<>>

\* ---------------------------------------------------------------- C5
\* the snapshot of snippet i numbered n
SnapshotAt(vs, i, n) ==
  CHOOSE v \in Range(vs) : v.snippet_id = i /\ v.version_number = n

\* C5: after a successful rollback(S, v) the title, content, language and
\* source of the live snippet are those of snapshot v, and diff(S, v) asked
\* for right afterwards succeeds with a patch without a hunk.
C5_RollbackThenDiffEmpty ==
  \A i \in DOMAIN snippets, n \in VersionNumbers :
    LET r == postRollback(DB, i, n)
    IN r.status = 200
       => LET v == SnapshotAt(versions, i, n)
              d == getDiff(r.db, i, n)
          IN /\ r.db.snippets[i].title = v.title
             /\ r.db.snippets[i].content = v.content
             /\ r.db.snippets[i].language = v.language
             /\ r.db.snippets[i].source = v.source
             /\ d.status = 200
             /\ d.body.diff.hunk = <<>>
             /\ d.body.current.content = d.body.version.content

\* a rollback to snapshot 1 has replaced a different title or content: the
\* live snippet is at version 3, equal to snapshot 1, and the diff is empty
C5_Witness ==
  \E i \in DOMAIN snippets :
    /\ last = [op |-> "rollback", id |-> i, arg |-> 1]
    /\ snippets[i].version = 3
    /\ snippets[i].content = SnapshotAt(versions, i, 1).content
    /\ snippets[i].content # SnapshotAt(versions, i, 2).content
    /\ getDiff(DB, i, 1).body.diff.hunk = <<>>

\* ---------------------------------------------------------------- C6
\* C6 as stated: every successful rollback(S, v) leaves S with exactly one
\* snapshot more than before.
C6_RollbackAddsOneSnapshot ==
  \A i \in DOMAIN snippets, n \in VersionNumbers :
    LET r == postRollback(DB, i, n)
    IN r.status = 200
       => Len(listVersions(r.db.versions, i)) = Len(listVersions(versions, i)) + 1

\* C6 amended: a successful rollback(S, v) adds exactly one snapshot, holding
\* the state it replaced, when the title or the content of snapshot v differs
\* from the live one, and adds none when both are equal; the snapshots there
\* were before stay as they were.
C6_RollbackSnapshotsReplacedText ==
  \A i \in DOMAIN snippets, n \in VersionNumbers :
    LET r == postRollback(DB, i, n)
    IN r.status = 200
       => LET v == SnapshotAt(versions, i, n)
          IN r.db.versions =
               (IF v.title # snippets[i].title \/ v.content # snippets[i].content
                THEN Append(versions, SnapshotOf(i, snippets[i]))
                ELSE versions)

\* a rollback to snapshot 1 has been served, and the newest snapshot holds
\* the content it replaced
C6_Witness ==
  \E i \in DOMAIN snippets :
    /\ last = [op |-> "rollback", id |-> i, arg |-> 1]
    /\ Len(listVersions(versions, i)) = 2
    /\ Head(listVersions(versions, i)).version_number = 2
    /\ Head(listVersions(versions, i)).content # snippets[i].content
    /\ SnapshotAt(versions, i, 1).content = snippets[i].content
    /\ SnapshotAt(versions, i, 1).title = snippets[i].title

\* ---------------------------------------------------------------- C7
\* C7: rollback(S, n) answers 404 when S has no snapshot numbered n, and also
\* when S does not exist, and then no table has changed.
C7_RollbackNotFound ==
  \A i \in 1..(MaxSnippetId + 1), n \in 0..(MaxVersionRows + 1) :
    (\/ i \notin DOMAIN snippets
     \/ ~ \E k \in DOMAIN versions :
            versions[k].snippet_id = i /\ versions[k].version_number = n)
    => LET r == postRollback(DB, i, n)
       IN r.status = 404 /\ r.db = DB

\* snippet 1 has just been deleted, snippet 2 has snapshot 1 and no
\* snapshot 2: rollback(1, 1) and rollback(2, 2) are not found, rollback(2, 1) is
C7_Witness ==
  /\ DOMAIN snippets = {2}
  /\ last = [op |-> "delete", id |-> 1, arg |-> 0]
  /\ postRollback(DB, 1, 1).status = 404
  /\ postRollback(DB, 2, 2).status = 404
  /\ postRollback(DB, 2, 1).status = 200

\* ---------------------------------------------------------------- C8
\* C8: in every step of every route, each snapshot whose snippet is still
\* there after the step is still there itself, with the same title, content,
\* language, source and version_number and in the same order; a snapshot goes
\* away only together with its snippet.
C8_SnapshotsFrozen ==
  [][LET kept == SelectSeq(versions, LAMBDA v : v.snippet_id \in DOMAIN snippets')
     IN /\ Len(versions') >= Len(kept)
        /\ SubSeq(versions', 1, Len(kept)) = kept]_vars

\* two snapshots of a snippet have lived through an import that overwrote
\* the snippet and made it a favorite
C8_Witness ==
  /\ last.op = "import"
  /\ \E i \in DOMAIN snippets :
       /\ Len(listVersions(versions, i)) = 2
       /\ BagIn(i, favorites)
       /\ \E t \in snippet_tags : t[1] = i

\* ---------------------------------------------------------------- C9
\* C9: in every reachable state each tag link, each favorite marker and each
\* snapshot refers to a snippet that exists; a delete takes them along.
C9_NoOrphans ==
  /\ \A st \in snippet_tags : st[1] \in DOMAIN snippets
  /\ BagToSet(favorites) \subseteq DOMAIN snippets
  /\ \A k \in DOMAIN versions : versions[k].snippet_id \in DOMAIN snippets

\* snippet 1 has just been deleted; snippet 2 keeps its tag link, its
\* favorite marker and its snapshot
C9_Witness ==
  /\ last = [op |-> "delete", id |-> 1, arg |-> 0]
  /\ DOMAIN snippets = {2}
  /\ <<2, 1>> \in snippet_tags
  /\ favorites = SetToBag({2})
  /\ Len(listVersions(versions, 2)) = 1

\* ---------------------------------------------------------------- C10
\* the names of the tags linked to snippet i
TagNamesOf(D, i) == {D.tags[st[2]].name : st \in {l \in D.snippet_tags : l[1] = i}}

\* C10: exporting all snippets and importing the document with
\* {overwriteExisting: true, skipDuplicates: false} leaves the number of
\* snippets and the title, content, language, tag set and favorite status of
\* every snippet as they were.
C10_RoundTrip ==
  \A order \in ExportOrders(DB, DOMAIN snippets) :
    LET r == roundTrip(DB, order)
    IN /\ ~r.threw
       /\ DOMAIN r.db.snippets = DOMAIN snippets
       /\ \A i \in DOMAIN snippets :
            /\ r.db.snippets[i].title = snippets[i].title
            /\ r.db.snippets[i].content = snippets[i].content
            /\ r.db.snippets[i].language = snippets[i].language
            /\ TagNamesOf(r.db, i) = TagNamesOf(DB, i)
            /\ BagIn(i, r.db.favorites) = BagIn(i, favorites)

\* ---------------------------------------------------------------- C11
\* records an import is tried with at every store: well formed ones, two of
\* them sharing title and content, and one without a title
DocumentRecords ==
  { [title |-> "A", content |-> <<"x=1">>, language |-> Some("js"), source |-> "docs",
     tags |-> Absent, is_favorite |-> FALSE],
    [title |-> "A", content |-> <<"x=1">>, language |-> Absent, source |-> NULL,
     tags |-> Some(<< [str |-> "web"] >>), is_favorite |-> TRUE],
    [title |-> "B", content |-> <<"x=1">>, language |-> Some("js"), source |-> NULL,
     tags |-> Some(<< [name |-> "c,cpp", color |-> Some("#fff")] >>), is_favorite |-> FALSE],
    [title |-> "", content |-> <<"x=1">>, language |-> Some("js"), source |-> NULL,
     tags |-> Absent, is_favorite |-> FALSE] }
Documents ==
  UNION {[snippets : {Some(rs) : rs \in [1..n -> DocumentRecords]}, version : {"1.1.0"}] :
           n \in 1..MaxDocument}

\* C11: when a document has been imported with the default options, a second
\* import of the same document with the default options creates no snippet,
\* and its ledger reports every record as an error whose message says that
\* the snippet already exists.
C11_SecondImportSkipsAll ==
  \A d \in Documents :
    LET first == postImport(DB, d, DefaultOptions)
    IN first.status = 200 =>
         LET second == postImport(first.db, d, DefaultOptions)
         IN /\ second.status = 200
            /\ second.db.snippets = first.db.snippets
            /\ second.db.snippetSeq = first.db.snippetSeq
            /\ second.body.success = 0
            /\ Len(second.body.details) = Len(d.snippets.val)
            /\ \A k \in DOMAIN second.body.details :
                 /\ second.body.details[k].status = "error"
                 /\ second.body.details[k].message = "Snippet already exists (skipped)"

\* an import has just created snippet 1, alone in the store, and importing a
\* document of two records with its title and content again is answered with
\* two errors
C11_Witness ==
  /\ last.op = "import"
  /\ DOMAIN snippets = {1}
  /\ snippets[1].version = 1
  /\ \E d \in Documents :
       LET second == postImport(DB, d, DefaultOptions)
       IN /\ second.status = 200
          /\ second.db = DB
          /\ second.body.errors = 2

\* ---------------------------------------------------------------- C12
\* the tag names a record lists
RecordTagNames(snippetData) ==
  {IF "str" \in DOMAIN t THEN t.str ELSE t.name : t \in Range(snippetData.tags.val)} \ {""}

\* the tag links and the favorite marker of every snippet but t are the same
\* in D and E
OthersUntouched(D, E, t) ==
  /\ {l \in E.snippet_tags : l[1] # t} = {l \in D.snippet_tags : l[1] # t}
  /\ DeleteFavoriteRows(E, t).favorites = DeleteFavoriteRows(D, t).favorites
  /\ \A j \in DOMAIN D.snippets \ {t} : E.snippets[j] = D.snippets[j]

\* C12: a record whose title and content are those of an existing snippet,
\* imported with overwriteExisting, creates no snippet; one such snippet gets
\* the record's language and source (plaintext and NULL where the record has
\* none), its tags and favorite status are processed under its id, and no
\* snapshot is created nor any version number changed.
C12_OverwriteInPlace ==
  \A snippetData \in DocumentRecords, o \in ImportOptions :
    LET matches == SnippetIdsByTitleContent(DB, snippetData.title, snippetData.content)
        r == importSingleSnippet(DB, snippetData, o)
    IN (o.overwriteExisting /\ snippetData.title # "" /\ matches # {}) =>
         /\ ~r.threw
         /\ DOMAIN r.db.snippets = DOMAIN snippets
         /\ r.db.snippetSeq = snippetSeq
         /\ r.db.versions = versions
         /\ \E t \in matches :
              /\ r.db.snippets[t] =
                   [snippets[t] EXCEPT
                      !.language = IF snippetData.language.present
                                   THEN snippetData.language.val ELSE "plaintext",
                      !.source = snippetData.source]
              /\ OthersUntouched(DB, r.db, t)
              /\ IF IsArray(snippetData.tags)
                 THEN TagNamesOf(r.db, t) = RecordTagNames(snippetData)
                 ELSE TagNamesOf(r.db, t) = TagNamesOf(DB, t)
              /\ BagIn(t, r.db.favorites) = snippetData.is_favorite

\* an import has just been served, snippet 1 has one snapshot and no tag, and
\* a record with its title and content would overwrite its language and
\* source and link it to a tag
C12_Witness ==
  /\ last.op = "import"
  /\ DOMAIN snippets = {1}
  /\ snippets[1].version = 2
  /\ Len(listVersions(versions, 1)) = 1
  /\ TagNamesOf(DB, 1) = {}
  /\ \E snippetData \in DocumentRecords :
       LET r == importSingleSnippet(DB, snippetData,
                                    [DefaultOptions EXCEPT !.overwriteExisting = TRUE])
       IN /\ ~r.threw
          /\ r.db.snippets[1].language # snippets[1].language
          /\ r.db.snippets[1].version = 2
          /\ TagNamesOf(r.db, 1) = {"web"}
          /\ r.db.favorites = SetToBag({1})

\* ---------------------------------------------------------------- C13
\* the snippet a record is meant for, when importSingleSnippet takes the
\* create path (no snippet has its title and content; the next id of the
\* sequence) or the overwrite path (one of those that have them); no target
\* on any other path
Targets(D, snippetData, options) ==
  LET matches == SnippetIdsByTitleContent(D, snippetData.title, snippetData.content)
  IN IF snippetData.title = "" THEN {}
     ELSE IF matches = {} THEN {D.snippetSeq + 1}
     ELSE IF options.overwriteExisting THEN matches
     ELSE {}

\* C13: after a record that carries a tags list has been processed on the
\* create path or on the overwrite path, the target snippet is linked to
\* exactly the tags the record names, and every named tag exists.
C13_TagsOfRecordLinked ==
  \A snippetData \in DocumentRecords, o \in ImportOptions :
    LET r == importSingleSnippet(DB, snippetData, o)
    IN (IsArray(snippetData.tags) /\ Targets(DB, snippetData, o) # {}) =>
         /\ ~r.threw
         /\ RecordTagNames(snippetData) \subseteq {r.db.tags[i].name : i \in DOMAIN r.db.tags}
         /\ \E t \in Targets(DB, snippetData, o) :
              /\ t \in DOMAIN r.db.snippets
              /\ TagNamesOf(r.db, t) = RecordTagNames(snippetData)

\* ---------------------------------------------------------------- C14
\* C14: after a record has been processed on the create path or on the
\* overwrite path, the target snippet has a favorite marker exactly when the
\* record's favorite flag is true.
C14_FavoriteFollowsFlag ==
  \A snippetData \in DocumentRecords, o \in ImportOptions :
    LET r == importSingleSnippet(DB, snippetData, o)
    IN Targets(DB, snippetData, o) # {} =>
         /\ ~r.threw
         /\ \E t \in Targets(DB, snippetData, o) :
              /\ t \in DOMAIN r.db.snippets
              /\ BagIn(t, r.db.favorites) = snippetData.is_favorite

\* ---------------------------------------------------------------- C15
\* a document holding the records rs
DocumentOf(rs) == [snippets |-> Some(rs), version |-> "1.1.0"]

\* C15: importFromJSON, with the default options and with the overwriting
\* ones, answers every document of records with a ledger that has one entry
\* per record, in document order, with success + errors equal to the number
\* of records and skipped equal to 0; a record that fails gets an entry of
\* status error and the records after it are processed as if they had been
\* imported by a call of their own.
C15_LedgerPerRecord ==
  \A d \in Documents, o \in {DefaultOptions, RoundTripOptions} :
    LET records == d.snippets.val
        r == importFromJSON(DB, d, o)
    IN /\ ~r.threw
       /\ Len(r.results.details) = Len(records)
       /\ \A k \in DOMAIN records :
            /\ r.results.details[k].title = records[k].title
            /\ r.results.details[k].status \in {"imported", "error"}
            /\ (records[k].title = "") => r.results.details[k].status = "error"
       /\ r.results.success =
            Cardinality({k \in DOMAIN records : r.results.details[k].status = "imported"})
       /\ r.results.success + r.results.errors = Len(records)
       /\ r.results.skipped = 0
       /\ Len(records) = 2 =>
            LET r1 == importFromJSON(DB, DocumentOf(<<records[1]>>), o)
                r2 == importFromJSON(r1.db, DocumentOf(<<records[2]>>), o)
            IN /\ r.db = r2.db
               /\ r.results.details = r1.results.details \o r2.results.details

\* an import has just created snippet 1, and a document that repeats its
\* record and goes on with a new one gets an error entry followed by an
\* imported entry, the new snippet being created
C15_Witness ==
  /\ last.op = "import"
  /\ DOMAIN snippets = {1}
  /\ \E d \in Documents :
       LET r == importFromJSON(DB, d, DefaultOptions)
       IN /\ ~r.threw
          /\ Len(r.results.details) = 2
          /\ r.results.details[1].status = "error"
          /\ r.results.details[2].status = "imported"
          /\ DOMAIN r.db.snippets = {1, 2}
          /\ r.results.success = 1 /\ r.results.errors = 1

\* ---------------------------------------------------------------- C16
\* documents whose snippets field is missing or is not a sequence
MalformedDocuments == {[snippets |-> Absent], [snippets |-> NotArray]}

\* C16: importFromJSON called with a document whose snippets field is missing
\* or is not a sequence ends with an error and leaves every table as it was;
\* POST /import refuses such a document before it gets that far.
C16_MalformedDocumentAborts ==
  \A d \in MalformedDocuments, o \in ImportOptions :
    LET r == importFromJSON(DB, d, o)
        reply == postImport(DB, d, o)
    IN /\ r.threw
       /\ r.db = DB
       /\ reply.status = 400
       /\ reply.db = DB

\* the store holds a snippet with a snapshot, a tag link and a favorite
\* marker, left by an import, and a call without a snippets sequence fails
C16_Witness ==
  /\ last.op = "import"
  /\ DOMAIN snippets = {1}
  /\ Len(listVersions(versions, 1)) = 1
  /\ snippet_tags = {<<1, 1>>}
  /\ favorites = SetToBag({1})
  /\ importFromJSON(DB, [snippets |-> Absent], DefaultOptions).threw

\* ---------------------------------------------------------------- C17
\* the shape of a validation report
IsReport(r) == DOMAIN r = {"valid", "errors", "warnings", "stats"}

\* C17: validateImportData hands back a report for every document, also for
\* one with a null snippet, and for a document that is not an object or that
\* has no snippets sequence the report has valid = false and a list of errors
\* that is not empty.
C17_ValidationReports ==
  validated.done =>
    /\ validated.reply.status = 200
    /\ IsReport(validated.reply.body)
    /\ (\/ validated.data = NotAnObject
        \/ ~IsArray(validated.data.snippets)
        \/ \E k \in DOMAIN validated.data.snippets.val :
             validated.data.snippets.val[k] = NullRecord)
       => /\ validated.reply.body.valid = FALSE
          /\ validated.reply.body.errors # <<>>

\* a document without a snippets sequence has been validated
C17_Witness ==
  /\ validated.done
  /\ validated.data = [snippets |-> Absent]
  /\ validated.reply.body.valid = FALSE
  /\ Len(validated.reply.body.errors) = 1

\* ---------------------------------------------------------------- C18
\* a snippet that fails one of the four per-snippet checks
Offending(snippet) ==
  \/ snippet.title \in {"", NotText}
  \/ snippet.content \in {<<>>, <<NotText>>}
  \/ snippet.language = Some(NotText)
  \/ snippet.tags = NotArray

\* the positions (counted from 1) of the snippets of a list that validation
\* gets to: those before the first null snippet
Reached(snippetList) ==
  {k \in DOMAIN snippetList : \A j \in 1..k : snippetList[j] # NullRecord}

\* the labels of the per-snippet messages of a report
Labels(report) ==
  {report.errors[k].snippet :
     k \in {j \in DOMAIN report.errors : "snippet" \in DOMAIN report.errors[j]}}

\* the last validated document has a snippets sequence
ValidatedList == validated.done /\ validated.data # NotAnObject /\ IsArray(validated.data.snippets)

\* C18 as stated: the per-snippet messages are labelled with the index
\* (counted from 0) of the offending snippet.
C18_LabelIsIndex ==
  ValidatedList =>
    Labels(validated.reply.body) =
      {k - 1 : k \in {j \in Reached(validated.data.snippets.val) :
                        Offending(validated.data.snippets.val[j])}}

\* C18 amended: a document with one snippet that lacks a title and is
\* otherwise well formed yields valid = false with exactly one error, and
\* each per-snippet message is labelled with the index of the offending
\* snippet plus one, the first snippet being "Snippet 1".
C18_LabelIsIndexPlusOne ==
  ValidatedList =>
    LET snippetList == validated.data.snippets.val
        report == validated.reply.body
    IN /\ Labels(report) =
            {(k - 1) + 1 : k \in {j \in Reached(snippetList) : Offending(snippetList[j])}}
       /\ (/\ Len(snippetList) = 1
           /\ snippetList[1] # NullRecord
           /\ snippetList[1].title = ""
           /\ ~Offending([snippetList[1] EXCEPT !.title = "A"]))
          => /\ report.valid = FALSE
             /\ report.errors = << [snippet |-> 1, message |-> "Missing or invalid title"] >>

\* a document whose first snippet is well formed and whose second lacks a
\* title has been validated: one message, labelled 2
C18_Witness ==
  /\ ValidatedList
  /\ Len(validated.data.snippets.val) = 2
  /\ validated.data.snippets.val[1] # NullRecord
  /\ ~Offending(validated.data.snippets.val[1])
  /\ validated.reply.body.errors = << [snippet |-> 2, message |-> "Missing or invalid title"] >>
  /\ validated.reply.body.stats =
       [totalSnippets |-> 2, validSnippets |-> 1, invalidSnippets |-> 1]

\* ---------------------------------------------------------------- C19
\* the id filters an export is tried with: none, and every set of ids the
\* sequence may have handed out, deleted ones included
ExportFilters == SUBSET (1..MaxSnippetId)

\* C19: exportToJSON without a filter returns every snippet, with a filter
\* exactly the existing snippets whose id is in it; total_snippets is the
\* number of snippets returned, and each of them carries the names and colors
\* of exactly the tags linked to it and is_favorite = true exactly when it
\* has a favorite marker.
C19_ExportSelectsAndResolves ==
  \A snippetIds \in ExportFilters :
    \A order \in ExportOrders(DB, ExportSelection(DB, snippetIds)) :
      LET document == exportToJSON(DB, snippetIds, order)
          out == document.snippets.val
          wanted == IF snippetIds = {} THEN DOMAIN snippets
                    ELSE {i \in DOMAIN snippets : i \in snippetIds}
      IN /\ {out[k].id : k \in DOMAIN out} = wanted
         /\ Len(out) = Cardinality(wanted)
         /\ document.total_snippets = Len(out)
         /\ \A k \in DOMAIN out :
              LET i == out[k].id
                  linked == {l[2] : l \in {st \in snippet_tags : st[1] = i}}
              IN /\ out[k].title = snippets[i].title
                 /\ out[k].content = snippets[i].content
                 /\ Len(out[k].tags.val) = Cardinality(linked)
                 /\ {<<t.name, t.color>> : t \in Range(out[k].tags.val)} =
                      {<<tags[j].name, Some(tags[j].color)>> : j \in linked}
                 /\ out[k].is_favorite = BagIn(i, favorites)

\* ---------------------------------------------------------------- C20
\* C20: DELETE /api/tags/:id for a tag linked to at least one snippet is
\* answered with a client error that reports the number of links, and leaves
\* the tag, its links and everything else in the store as they were.
C20_DeleteTagInUseRefused ==
  \A tagId \in DOMAIN tags :
    LET links == {st \in snippet_tags : st[2] = tagId}
        r == deleteTag(DB, tagId)
    IN links # {} =>
         /\ r.status \in 400..499
         /\ r.body.usage_count = Cardinality(links)
         /\ r.db = DB

\* tag 1 is linked to two snippets and its deletion is refused with
\* usage_count 2
C20_Witness ==
  /\ snippet_tags = {<<1, 1>>, <<2, 1>>}
  /\ 1 \in DOMAIN tags
  /\ deleteTag(DB, 1).status = 400
  /\ deleteTag(DB, 1).body = [usage_count |-> 2]

\* ---------------------------------------------------------------- C22
\* the lines of a that do not occur in b
OnlyIn(a, b) == Range(a) \ Range(b)

\* the lines a hunk reports with the given sign
Marked(hunk, sign) == {h[2] : h \in {x \in Range(hunk) : x[1] = sign}}

\* C22 as stated: the diff takes the snapshot as the old text and the live
\* snippet as the new text, so a line only in the snapshot is reported as
\* removed and a line only in the live snippet as added.
C22_SnapshotIsOld ==
  \A i \in DOMAIN snippets, n \in VersionNumbers :
    LET d == getDiff(DB, i, n)
    IN d.status = 200 =>
         /\ OnlyIn(d.body.version.content, d.body.current.content)
              \subseteq Marked(d.body.diff.hunk, "-")
         /\ OnlyIn(d.body.current.content, d.body.version.content)
              \subseteq Marked(d.body.diff.hunk, "+")

\* C22 amended: the diff takes the live snippet as the old text, labelled
\* (current), and the snapshot as the new text, labelled with its version
\* number: a line only in the snapshot is reported as added, a line only in
\* the live snippet as removed, and no other line is reported as changed.
C22_LiveIsOld ==
  \A i \in DOMAIN snippets, n \in VersionNumbers :
    LET d == getDiff(DB, i, n)
    IN d.status = 200 =>
         /\ d.body.current.content = snippets[i].content
         /\ d.body.version.content = SnapshotAt(versions, i, n).content
         /\ d.body.diff.oldFileName = <<snippets[i].title, "(current)">>
         /\ d.body.diff.newFileName = <<SnapshotAt(versions, i, n).title, "v", n>>
         /\ Marked(d.body.diff.hunk, "+") =
              OnlyIn(d.body.version.content, d.body.current.content)
         /\ Marked(d.body.diff.hunk, "-") =
              OnlyIn(d.body.current.content, d.body.version.content)

\* snippet 1 holds a line that its snapshot 1 lacks, and the diff reports
\* that line as removed
C22_Witness ==
  /\ 1 \in DOMAIN snippets
  /\ snippets[1].content = <<"x=1", "y=2">>
  /\ getDiff(DB, 1, 1).status = 200
  /\ getDiff(DB, 1, 1).body.version.content = <<"x=1">>
  /\ getDiff(DB, 1, 1).body.diff.hunk = << <<" ", "x=1">>, <<"-", "y=2">> >>

\* ---------------------------------------------------------------- C23
\* C23: diff(snippetId, versionNumber) is answered with 404 when the snippet
\* does not exist or has no snapshot with that number, with 200 otherwise,
\* and in every case the tables are left as they were.
C23_DiffNotFound ==
  \A i \in SnippetIds, n \in VersionNumbers :
    LET d == getDiff(DB, i, n)
        missing == \/ i \notin DOMAIN snippets
                   \/ ~\E v \in Range(versions) : v.snippet_id = i /\ v.version_number = n
    IN /\ d.db = DB
       /\ d.status = IF missing THEN 404 ELSE 200

\* snippet 1 has one snapshot and snippet 2 does not exist: the diff with
\* snapshot 1 is answered, the diffs with snapshot 2 and of snippet 2 are not
C23_Witness ==
  /\ DOMAIN snippets = {1}
  /\ snippets[1].version = 2
  /\ Len(versions) = 1
  /\ getDiff(DB, 1, 1).status = 200
  /\ getDiff(DB, 1, 2) = Reply(DB, 404, "Version not found")
  /\ getDiff(DB, 2, 1) = Reply(DB, 404, "Snippet not found")

\* ---------------------------------------------------------------- C24
\* C24: toggling the favorite status of an existing snippet is answered with
\* 200, leaves a marker exactly when there was none, reports the new status
\* as is_favorite, touches nothing else, and a second toggle restores the
\* store; toggling a snippet that does not exist is answered with 404 and
\* changes nothing.
C24_ToggleFlips ==
  \A i \in SnippetIds :
    LET r == toggleFavorite(DB, i)
    IN IF i \in DOMAIN snippets
       THEN /\ r.status = 200
            /\ BagIn(i, r.db.favorites) = ~BagIn(i, favorites)
            /\ r.body.is_favorite = BagIn(i, r.db.favorites)
            /\ DeleteFavoriteRows(r.db, i) = DeleteFavoriteRows(DB, i)
            /\ toggleFavorite(r.db, i).status = 200
            /\ toggleFavorite(r.db, i).db = DB
       ELSE /\ r.status = 404
            /\ r.db = DB

\* a toggle has just marked snippet 1, snippet 2 does not exist, and the
\* next toggle of snippet 1 would take the marker away
C24_Witness ==
  /\ last = [op |-> "toggle", id |-> 1, arg |-> 0]
  /\ DOMAIN snippets = {1}
  /\ favorites = SetToBag({1})
  /\ toggleFavorite(DB, 1).body = [is_favorite |-> FALSE]
  /\ toggleFavorite(DB, 2).status = 404

\* ---------------------------------------------------------------- C28
\* the positions in the versions table of the snapshots of snippet i
SnapshotRows(i) == {k \in DOMAIN versions : versions[k].snippet_id = i}

\* C28: for every snippet the version numbers of its snapshots are pairwise
\* distinct and are exactly the numbers from 1 to its live version minus 1;
\* a (snippet id, version number) pair names at most one snapshot.
C28_SnapshotNumbersContiguous ==
  \A i \in DOMAIN snippets :
    /\ {versions[k].version_number : k \in SnapshotRows(i)} = 1..(snippets[i].version - 1)
    /\ \A k, l \in SnapshotRows(i) :
         versions[k].version_number = versions[l].version_number => k = l
    /\ \A n \in VersionNumbers : Len(VersionRows(versions, i, n)) <= 1

\* snippet 1 is at version 3 after a rollback, with snapshots 1 and 2
C28_Witness ==
  /\ last.op = "rollback"
  /\ 1 \in DOMAIN snippets
  /\ snippets[1].version = 3
  /\ Cardinality(SnapshotRows(1)) = 2
  /\ Len(VersionRows(versions, 1, 1)) = 1
  /\ Len(VersionRows(versions, 1, 2)) = 1

\* ---------------------------------------------------------------- C26
\* a well formed record whose tags list holds a name and a null
RecordWithNullTag ==
  [title |-> "A", content |-> <<"x=1">>, language |-> Some("js"), source |-> NULL,
   tags |-> Some(<< [str |-> "web"], NullTag >>), is_favorite |-> TRUE]

\* C26: a record that POST /import reports with status error has left every
\* table as it was: no snippet created or modified, no tag created, no tag
\* link or favorite marker added or removed.
C26_ErrorRecordChangesNothing ==
  \A snippetData \in DocumentRecords \cup {RecordWithNullTag}, o \in ImportOptions :
    LET reply == postImport(DB, DocumentOf(<<snippetData>>), o)
    IN (reply.status = 200 /\ reply.body.details[1].status = "error") => reply.db = DB

\* ---------------------------------------------------------------- C27
\* the snippets an import of the one record overwrote in D: with
\* overwriteExisting, those found by the record's title and content
OverwrittenBy(D, snippetData, options) ==
  LET matches == SnippetIdsByTitleContent(D, snippetData.title, snippetData.content)
  IN IF options.overwriteExisting /\ matches # {} THEN {Ascending(matches)[1]} ELSE {}

\* C27: for every combination of overwriteExisting and skipDuplicates, a
\* record that POST /import reports as imported is a snippet the call
\* created or overwrote, and success is the number of snippets created plus
\* the number of snippets overwritten.
C27_ImportedMeansWritten ==
  \A snippetData \in DocumentRecords, o \in ImportOptions :
    LET reply == postImport(DB, DocumentOf(<<snippetData>>), o)
    IN reply.status = 200 =>
         LET written == Cardinality(CreatedBy(DB, reply.db))
                          + Cardinality(OverwrittenBy(DB, snippetData, o))
         IN /\ reply.body.details[1].status = "imported" => written = 1
            /\ reply.body.success = written

\* ---------------------------------------------------------------- C30
\* C30: a GET request for /api/snippets/export is dispatched to the export
\* handler and answered with the export document, JSON or Markdown by its
\* type, not by the handler of GET /api/snippets/:id.
C30_ExportReachesExportHandler ==
  /\ Dispatch(GetRoutes, <<"export">>) = "export"
  /\ \A order \in ExportOrders(DB, DOMAIN snippets) :
       /\ getRequest(DB, <<"export">>, "json", order) =
            Reply(DB, 200, exportToJSON(DB, {}, order))
       /\ getRequest(DB, <<"export">>, "md", order) =
            Reply(DB, 200, exportToMarkdown(DB, {}, order))

C25_AllOrNothingInterleaved ==
  [][\A slot \in Slots :
       (calls[slot].pc # "done" /\ calls'[slot].pc = "done" /\ calls'[slot].kind = "import") =>
         /\ calls'[slot].threw => calls'[slot].created \cap DOMAIN snippets' = {}
         /\ ~calls'[slot].threw =>
              /\ calls'[slot].created \subseteq DOMAIN snippets'
              /\ txn'.open => calls'[slot].created \subseteq DOMAIN txn'.saved.snippets
         /\ (txn.open /\ ~txn'.open) => txn.owner = slot]_vars

\* ---------------------------------------------------------------- C29
\* C29: every import call has issued BEGIN TRANSACTION before any COMMIT or
\* ROLLBACK, has issued COMMIT and ROLLBACK only while the transaction it
\* opened was open, and, once it has ended after opening a transaction, has
\* issued exactly one COMMIT or ROLLBACK.
C29_BracketWellFormed ==
  \A slot \in Slots :
    (calls[slot].pc # "idle" /\ calls[slot].kind = "import") =>
      /\ calls[slot].ended > 0 => calls[slot].begun
      /\ ~calls[slot].stray
      /\ (calls[slot].pc = "done" /\ calls[slot].opened) => calls[slot].ended = 1

====
